---- MODULE Spec2Model ----
(***************************************************************************)
(* Model of the search controller of the YouTube brand-mention finder:     *)
(* the App component (src/unnamed/part_000, "src/App.jsx") with its two    *)
(* async handlers handleSearch and loadMore, and the submit handler of     *)
(* SearchForm (src/frontend/src/components/SearchForm.jsx).                *)
(*                                                                         *)
(* Encoding of JavaScript values.  A JS string is a sequence of one-       *)
(* character strings ('' is << >>), so that String.prototype.trim can be   *)
(* computed.  JS null is the one-element sequence Null, which is no string *)
(* because its element is not a single character.  A video object is an    *)
(* opaque identifier.  URLSearchParams is the sequence of <<name, value>>  *)
(* pairs in append order.                                                  *)
(*                                                                         *)
(* Each async handler runs synchronously up to its first await (the fetch) *)
(* and resumes when the fetch settles; a handler invocation suspended at   *)
(* the await is a record of `pending`.  The record keeps the request that  *)
(* was sent and what the rest of the handler reads from its closure: for   *)
(* loadMore the `results` array of the render in which it was called.      *)
(* React re-renders between two events, so a handler called by an event    *)
(* reads the current state.                                                *)
(***************************************************************************)
EXTENDS Integers, Sequences, FiniteSets, TLC

VARIABLES
    keyword,        \* useState('')      part_000:9
    results,        \* useState([])      part_000:10
    loading,        \* useState(false)   part_000:11
    error,          \* useState(null)    part_000:12
    nextPageToken,  \* useState(null)    part_000:13
    totalResults,   \* useState(0)       part_000:14
    filters,        \* useState({...})   part_000:17-22
    pending,        \* the handler invocations suspended at their await fetch(...)
    issued,         \* number of fetches issued so far
    current,        \* history: number of the invocation of the latest accepted handleSearch
    query,          \* history: the arguments of the latest accepted handleSearch
    received,       \* history: the bodies received so far for fetches of the current search
    tokenFrom,      \* history: the query parameters of the request whose response wrote nextPageToken
    exhausted,      \* history: a response has delivered no next_page_token, and no
                    \* handleSearch response has delivered one since
    view,           \* the last call of a VideoCard helper: its arguments and what it returned
    last,           \* history: the last handler step taken
    pre             \* history: the search state just before that step

state == <<keyword, results, loading, error, nextPageToken, totalResults, filters>>
vars == <<keyword, results, loading, error, nextPageToken, totalResults, filters,
          pending, issued, current, query, received, tokenFrom, exhausted, view,
          last, pre>>

(***************************************************************************)
(* Bounds and input sets                                                   *)
(***************************************************************************)
MaxFetches == 3

Null == <<"null">>

WhiteSpace == {" ", "\t"}

Nike == <<"n", "i", "k", "e">>
PaddedHp == <<" ", "h", "p", " ">>
Blank == <<" ", "\t">>

NoFilters == [minDate |-> << >>, maxDate |-> << >>, minViews |-> << >>, channelName |-> << >>]

SinceFilters ==
    [minDate |-> <<"2", "0", "2", "4">>, maxDate |-> << >>,
     minViews |-> <<"1", "0">>, channelName |-> << >>]

ChannelFilters ==
    [minDate |-> << >>, maxDate |-> <<"2", "0", "2", "5">>,
     minViews |-> << >>, channelName |-> <<"T", "V">>]

\* what the form holds when it is submitted: the keyword box and the four
\* filter boxes; two of the keywords are blank
FormInputs ==
    { [keyword |-> << >>,    filters |-> NoFilters],
      [keyword |-> Blank,    filters |-> SinceFilters],
      [keyword |-> Nike,     filters |-> NoFilters],
      [keyword |-> Nike,     filters |-> SinceFilters],
      [keyword |-> PaddedHp, filters |-> ChannelFilters] }

\* the bodies the search API answers with
Pages ==
    { [videos |-> <<"v1", "v2">>, next_page_token |-> <<"t", "1">>, total_results |-> 35],
      [videos |-> <<"v2">>,       next_page_token |-> <<"t", "2">>, total_results |-> 20],
      [videos |-> <<"v1">>,       next_page_token |-> Null,         total_results |-> 35] }

InternalServerError ==
    <<"I","n","t","e","r","n","a","l"," ","S","e","r","v","e","r"," ","E","r","r","o","r">>
FailedToFetch == <<"F","a","i","l","e","d"," ","t","o"," ","f","e","t","c","h">>

NoData == [videos |-> << >>, next_page_token |-> Null, total_results |-> 0]
NoFailure == [thrown |-> FALSE, statusText |-> << >>, message |-> << >>]

\* the ways a fetch can fail: a response with ok = false, or a rejected promise
Failures ==
    { [thrown |-> FALSE, statusText |-> InternalServerError, message |-> << >>],
      [thrown |-> TRUE,  statusText |-> << >>,               message |-> FailedToFetch] }

(***************************************************************************)
(* Pure helpers                                                            *)
(***************************************************************************)
RECURSIVE TrimStart(_)
TrimStart(s) ==
    IF s # << >> /\ Head(s) \in WhiteSpace THEN TrimStart(Tail(s)) ELSE s

RECURSIVE TrimEnd(_)
TrimEnd(s) ==
    IF s # << >> /\ s[Len(s)] \in WhiteSpace
    THEN TrimEnd(SubSeq(s, 1, Len(s) - 1)) ELSE s

\* a guard that tests the keyword without trimming it
TrimNothing(s) == s

\* String.prototype.trim
Trim(s) == TrimEnd(TrimStart(s))

\* JS truthiness of a string-or-null value: null and '' are falsy
Truthy(v) == v # Null /\ v # << >>

\* a parameter appended whether or not its value is empty
AppendAlways(params, name, value) == Append(params, <<name, value>>)

\* if (value) params.append(name, value)
AppendIf(params, name, value) ==
    IF Truthy(value) THEN Append(params, <<name, value>>) ELSE params

\* the four optional filter parameters, part_000:38-41 and 70-73
AppendFilters(params, f) ==
    AppendIf(AppendIf(AppendIf(AppendIf(params,
        "min_date", f.minDate), "max_date", f.maxDate),
        "min_views", f.minViews), "channel_name", f.channelName)

\* part_000:35-41
SearchParams(searchKeyword, searchFilters) ==
    AppendFilters(<< <<"keyword", searchKeyword>> >>, searchFilters)

\* part_000:66-73
LoadMoreParams(kw, token, f) ==
    AppendFilters(<< <<"keyword", kw>>, <<"page_token", token>> >>, f)

ErrorPrefix == <<"E", "r", "r", "o", "r", ":", " ">>

\* err.message in the catch block: the Error thrown at part_000:46 / 78 for a
\* response that is not ok, or the error fetch itself rejected with
ErrMessage(failure) ==
    IF failure.thrown THEN failure.message ELSE ErrorPrefix \o failure.statusText

Snapshot ==
    [keyword |-> keyword, results |-> results, loading |-> loading, error |-> error,
     nextPageToken |-> nextPageToken, totalResults |-> totalResults,
     filters |-> filters, pending |-> pending]

NoInvocation == [id |-> 0, kind |-> "none", params |-> << >>, results |-> << >>, search |-> 0]

\* no VideoCard helper has been called yet
NoCall ==
    [fn |-> "none", text |-> << >>, keyword |-> << >>, matchTypes |-> << >>, count |-> 0,
     thrown |-> FALSE, parts |-> << >>, label |-> "", foundIn |-> FALSE,
     isNumber |-> FALSE, number |-> 0, formatted |-> ""]

\* a history record: the step, the invocation it issued or resumed, the keyword
\* handed to handleSubmit, and the body or failure the fetch settled with
Step(op, inv, arg, data, failure) ==
    [op |-> op, inv |-> inv, arg |-> arg, data |-> data, failure |-> failure]

(***************************************************************************)
(* Initial state: the first render of App                                  *)
(***************************************************************************)
Init ==
    /\ keyword = << >>
    /\ results = << >>
    /\ loading = FALSE
    /\ error = Null
    /\ nextPageToken = Null
    /\ totalResults = 0
    /\ filters = NoFilters
    /\ pending = {}
    /\ issued = 0
    /\ current = 0
    /\ query = [keyword |-> << >>, filters |-> NoFilters]
    /\ received = << >>
    /\ tokenFrom = << >>
    /\ exhausted = FALSE
    /\ view = NoCall
    /\ last = Step("init", NoInvocation, << >>, NoData, NoFailure)
    /\ pre = [keyword |-> << >>, results |-> << >>, loading |-> FALSE, error |-> Null,
              nextPageToken |-> Null, totalResults |-> 0, filters |-> NoFilters,
              pending |-> {}]

(***************************************************************************)
(* handleSearch, part_000:24-58                                            *)
(***************************************************************************)
\* the guard of line 25
Accepted(searchKeyword) == Trim(searchKeyword) # << >>

\* the invocation suspended at line 43; the rest of the handler reads nothing
\* but the response
SearchInvocation(n, searchKeyword, searchFilters) ==
    [id |-> n, kind |-> "search",
     params |-> SearchParams(searchKeyword, searchFilters),
     results |-> << >>, search |-> n]

\* a new search that keeps the accumulated results
SearchResetKeepsResults ==
    [loading |-> TRUE, error |-> Null, results |-> results, nextPageToken |-> Null]

\* lines 29-32: what a new search resets
SearchReset == [loading |-> TRUE, error |-> Null, results |-> << >>, nextPageToken |-> Null]

\* lines 27-43: the synchronous part of an accepted call, up to the await
handleSearchIssue(searchKeyword, searchFilters) ==
    /\ issued < MaxFetches
    /\ keyword' = searchKeyword
    /\ filters' = searchFilters
    /\ loading' = SearchReset.loading
    /\ error' = SearchReset.error
    /\ results' = SearchReset.results
    /\ nextPageToken' = SearchReset.nextPageToken
    /\ UNCHANGED totalResults
    /\ issued' = issued + 1
    /\ pending' = pending \cup {SearchInvocation(issued + 1, searchKeyword, searchFilters)}
    /\ current' = issued + 1
    /\ query' = [keyword |-> searchKeyword, filters |-> searchFilters]
    /\ received' = << >>
    /\ UNCHANGED <<tokenFrom, exhausted, view>>
    /\ last' = Step("search", SearchInvocation(issued + 1, searchKeyword, searchFilters),
                     searchKeyword, NoData, NoFailure)
    /\ pre' = Snapshot

\* line 25: early return
handleSearchReturn(searchKeyword) ==
    /\ UNCHANGED <<state, pending, issued, current, query, received,
                   tokenFrom, exhausted, view>>
    /\ last' = Step("searchIgnored", NoInvocation, searchKeyword, NoData, NoFailure)
    /\ pre' = Snapshot

handleSearch(searchKeyword, searchFilters) ==
    IF Accepted(searchKeyword)
    THEN handleSearchIssue(searchKeyword, searchFilters)
    ELSE handleSearchReturn(searchKeyword)

\* SearchForm.handleSubmit, SearchForm.jsx:11-24: the only caller of onSearch
handleSubmit(formKeyword, formFilters) ==
    IF Trim(formKeyword) # << >>
    THEN handleSearch(formKeyword, formFilters)
    ELSE handleSearchReturn(formKeyword)

Submit == \E form \in FormInputs : handleSubmit(form.keyword, form.filters)

\* the parameters of a request that name its query: all but page_token
QueryParams(params) == SelectSeq(params, LAMBDA pair : pair[1] # "page_token")

\* the history of bodies received for the current search
Receive(inv, data) ==
    IF inv.search = current THEN Append(received, data) ELSE received

\* a handler whose finally block is missing: loading keeps its value
LoadingAfterFinallySkipped == loading

\* lines 55-57 and 86-88: finally { setLoading(false) }
LoadingAfterFinally == FALSE

\* lines 49-52 and 56: the fetch of invocation inv answered ok with body `data`
SearchResolve ==
    \E inv \in pending, data \in Pages :
        /\ inv.kind = "search"
        /\ results' = data.videos
        /\ nextPageToken' = data.next_page_token
        /\ totalResults' = data.total_results
        /\ loading' = LoadingAfterFinally
        /\ UNCHANGED <<keyword, filters, error>>
        /\ pending' = pending \ {inv}
        /\ received' = Receive(inv, data)
        /\ tokenFrom' = QueryParams(inv.params)
        /\ exhausted' = ~Truthy(data.next_page_token)
        /\ UNCHANGED <<issued, current, query, view>>
        /\ last' = Step("searchOk", inv, << >>, data, NoFailure)
        /\ pre' = Snapshot

\* lines 45-47 and 53-56: the fetch failed
SearchReject ==
    \E inv \in pending, failure \in Failures :
        /\ inv.kind = "search"
        /\ error' = ErrMessage(failure)
        /\ loading' = LoadingAfterFinally
        /\ UNCHANGED <<keyword, filters, results, nextPageToken, totalResults>>
        /\ pending' = pending \ {inv}
        /\ UNCHANGED <<issued, current, query, received, tokenFrom, exhausted, view>>
        /\ last' = Step("searchFailed", inv, << >>, NoData, failure)
        /\ pre' = Snapshot

(***************************************************************************)
(* loadMore, part_000:60-89                                                *)
(***************************************************************************)
\* a guard that forgets the loading flag
loadMoreGuardIgnoresLoading(token, isLoading) == Truthy(token)

\* line 61
loadMoreGuard(token, isLoading) == Truthy(token) /\ ~isLoading

\* the invocation suspended at line 75; line 82 reads the `results` of its closure
LoadMoreInvocation(n) ==
    [id |-> n, kind |-> "more",
     params |-> LoadMoreParams(keyword, nextPageToken, filters),
     results |-> results, search |-> current]

\* lines 63-75
loadMoreIssue ==
    /\ issued < MaxFetches
    /\ loading' = TRUE
    /\ UNCHANGED <<keyword, filters, results, error, nextPageToken, totalResults>>
    /\ issued' = issued + 1
    /\ pending' = pending \cup {LoadMoreInvocation(issued + 1)}
    /\ UNCHANGED <<current, query, received, tokenFrom, exhausted, view>>
    /\ last' = Step("loadMore", LoadMoreInvocation(issued + 1), << >>, NoData, NoFailure)
    /\ pre' = Snapshot

\* line 61: early return
loadMoreReturn ==
    /\ UNCHANGED <<state, pending, issued, current, query, received,
                   tokenFrom, exhausted, view>>
    /\ last' = Step("loadMoreIgnored", NoInvocation, << >>, NoData, NoFailure)
    /\ pre' = Snapshot

loadMore ==
    IF loadMoreGuard(nextPageToken, loading) THEN loadMoreIssue ELSE loadMoreReturn

\* lines 81-83 and 87
LoadMoreResolve ==
    \E inv \in pending, data \in Pages :
        /\ inv.kind = "more"
        /\ results' = inv.results \o data.videos
        /\ nextPageToken' = data.next_page_token
        /\ loading' = LoadingAfterFinally
        /\ UNCHANGED <<keyword, filters, error, totalResults>>
        /\ pending' = pending \ {inv}
        /\ received' = Receive(inv, data)
        /\ tokenFrom' = QueryParams(inv.params)
        /\ exhausted' = (exhausted \/ ~Truthy(data.next_page_token))
        /\ UNCHANGED <<issued, current, query, view>>
        /\ last' = Step("moreOk", inv, << >>, data, NoFailure)
        /\ pre' = Snapshot

\* lines 77-79 and 84-87
LoadMoreReject ==
    \E inv \in pending, failure \in Failures :
        /\ inv.kind = "more"
        /\ error' = ErrMessage(failure)
        /\ loading' = LoadingAfterFinally
        /\ UNCHANGED <<keyword, filters, results, nextPageToken, totalResults>>
        /\ pending' = pending \ {inv}
        /\ UNCHANGED <<issued, current, query, received, tokenFrom, exhausted, view>>
        /\ last' = Step("moreFailed", inv, << >>, NoData, failure)
        /\ pre' = Snapshot

Next ==
    \/ Submit
    \/ loadMore
    \/ SearchResolve
    \/ SearchReject
    \/ LoadMoreResolve
    \/ LoadMoreReject

Spec == Init /\ [][Next]_vars

\* every fetch that was issued settles: the promise of line 43 / 75 is resolved
\* or rejected, and the suspended handler then runs to its end
FairSpec ==
    /\ Spec
    /\ WF_vars(SearchResolve \/ SearchReject)
    /\ WF_vars(LoadMoreResolve \/ LoadMoreReject)

\* part_000:128: the condition under which the Load More button is rendered
LoadMoreOffered == Truthy(nextPageToken) /\ ~loading

TypeOK ==
    /\ loading \in BOOLEAN
    /\ issued \in 0..MaxFetches
    /\ totalResults \in Nat
    /\ \A inv \in pending : inv.id \in 1..issued

(***************************************************************************)
(* VideoCard, src/unnamed/part_001: the three helpers of a result card.    *)
(* They are pure; a call is recorded in `view` with its arguments, and the  *)
(* behaviours of RenderSpec are the single calls.                          *)
(***************************************************************************)
controller ==
    <<keyword, results, loading, error, nextPageToken, totalResults, filters,
      pending, issued, current, query, received, tokenFrom, exhausted, last, pre>>

MaxCount == 1500
MaxTags == 2
MaxTextLen == 3
MaxKeywordLen == 2

Thousand == 1000
Million == 1000000
\* significant bits of an IEEE 754 double, the type of count / 1000
MantissaBits == 53

\* view counts: the small ones, and some around and above a million
Counts == 0..MaxCount \cup {999949, 999950, 999999, 1000000, 1150000, 1250000, 2500000}

RECURSIVE BitLength(_)
BitLength(n) == IF n = 0 THEN 0 ELSE 1 + BitLength(n \div 2)

\* The sign of fl(count / scale) - count / scale, where fl rounds to the nearest
\* double, ties to even: the quotient is developed bit by bit (`rem` is the
\* remainder still to divide, `k` the number of mantissa bits still to produce,
\* `lastBit` the last bit produced), and the rest decides the rounding.
RECURSIVE DivisionError(_, _, _, _)
DivisionError(rem, scale, k, lastBit) ==
    IF k > 0
    THEN DivisionError((2 * rem) % scale, scale, k - 1, (2 * rem) \div scale)
    ELSE IF rem = 0 THEN 0
         ELSE IF 2 * rem > scale \/ (2 * rem = scale /\ lastBit = 1) THEN 1
         ELSE -1

\* the integer m of (count / scale).toFixed(1), whose digits are m / 10: the m
\* closest to 10 * fl(count / scale), the larger of two equally close ones.
\* fl(count / scale) is off the quotient by less than 1 / (20 * scale) for the
\* counts of Counts, so it matters only when 10 * count / scale is half way.
Tenths(count, scale) ==
    LET floor == (10 * count) \div scale
        rest  == (10 * count) % scale
        quotient == count \div scale
    IN  IF 2 * rest > scale THEN floor + 1
        ELSE IF 2 * rest < scale THEN floor
        ELSE IF DivisionError(count % scale, scale,
                              MantissaBits - BitLength(quotient), quotient % 2) >= 0
             THEN floor + 1
             ELSE floor

\* Number.prototype.toFixed(1)
ToFixed1(count, scale) ==
    ToString(Tenths(count, scale) \div 10) \o "." \o ToString(Tenths(count, scale) % 10)

\* part_001:2-9; below a thousand the number itself is returned
formatViews(count) ==
    IF count >= Million
    THEN [isNumber |-> FALSE, number |-> 0, formatted |-> ToFixed1(count, Million) \o "M"]
    ELSE IF count >= Thousand
    THEN [isNumber |-> FALSE, number |-> 0, formatted |-> ToFixed1(count, Thousand) \o "K"]
    ELSE [isNumber |-> TRUE, number |-> count, formatted |-> ""]

CallFormatViews ==
    /\ view = NoCall
    /\ \E count \in Counts :
            /\ LET returned == formatViews(count)
               IN  view' = [NoCall EXCEPT !.fn = "formatViews", !.count = count,
                                          !.isNumber = returned.isNumber,
                                          !.number = returned.number,
                                          !.formatted = returned.formatted]
    /\ UNCHANGED controller

\* the tags a video's match_type may hold; "channel" is none of the three known
MatchTypes == {"title", "description", "transcript", "channel"}

TagLists == UNION { [1..n -> MatchTypes] : n \in 0..MaxTags }

\* a switch that has lost its "transcript" case
MatchLabelWithoutTranscript(type) ==
    CASE type = "title" -> "Title"
      [] type = "description" -> "Description"
      [] OTHER -> type

\* part_001:40-49: the switch
MatchLabel(type) ==
    CASE type = "title" -> "Title"
      [] type = "description" -> "Description"
      [] type = "transcript" -> "Transcript"
      [] OTHER -> type

\* Array.prototype.join
RECURSIVE Join(_, _)
Join(strings, separator) ==
    IF strings = << >> THEN ""
    ELSE IF Len(strings) = 1 THEN strings[1]
    ELSE Join(SubSeq(strings, 1, Len(strings) - 1), separator)
            \o separator \o strings[Len(strings)]

\* part_001:35-52
getMatchLabel(matchTypes) ==
    IF Len(matchTypes) = 0 THEN ""
    ELSE Join([i \in 1..Len(matchTypes) |-> MatchLabel(matchTypes[i])], ", ")

\* part_001:88: the "Found in:" element is rendered
FoundInRendered(matchTypes) == Len(matchTypes) > 0

CallGetMatchLabel ==
    /\ view = NoCall
    /\ \E matchTypes \in TagLists :
            /\ view' = [NoCall EXCEPT !.fn = "getMatchLabel", !.matchTypes = matchTypes,
                                      !.label = getMatchLabel(matchTypes),
                                      !.foundIn = FoundInRendered(matchTypes)]
    /\ UNCHANGED controller

(***************************************************************************)
(* highlightText, part_001:20-33.  The keyword is compiled as the regular  *)
(* expression (keyword) with flags g and i.  The characters of the model   *)
(* are letters, '.', '*' and '(': a '(' in the keyword leaves a group      *)
(* unterminated and a '*' that follows nothing repeatable has nothing to   *)
(* repeat, both SyntaxErrors of new RegExp; '.' matches any character and  *)
(* x* the longest run of x that lets the rest match.                       *)
(***************************************************************************)
TextChars == {"a", "A", "b", ".", "*"}
KeywordChars == {"a", "A", ".", "*", "("}

Texts == UNION { [1..n -> TextChars] : n \in 0..MaxTextLen }
KeywordTexts == UNION { [1..n -> KeywordChars] : n \in 1..MaxKeywordLen }

\* String.prototype.toLowerCase, character by character
LowerChar(c) == IF c = "A" THEN "a" ELSE IF c = "B" THEN "b" ELSE c
ToLowerCase(str) == [i \in 1..Len(str) |-> LowerChar(str[i])]

\* new RegExp throws a SyntaxError
InvalidPattern(kw) ==
    \E i \in 1..Len(kw) :
        \/ kw[i] = "("
        \/ kw[i] = "*" /\ (i = 1 \/ kw[i - 1] = "*")

\* the terms of a valid pattern: a character or '.', possibly starred
RECURSIVE Terms(_)
Terms(kw) ==
    IF kw = << >> THEN << >>
    ELSE IF Len(kw) >= 2 /\ kw[2] = "*"
         THEN <<[char |-> kw[1], star |-> TRUE]>> \o Terms(SubSeq(kw, 3, Len(kw)))
         ELSE <<[char |-> kw[1], star |-> FALSE]>> \o Terms(Tail(kw))

\* a term matches one character, ignoring case
TermMatches(term, c) == term.char = "." \/ LowerChar(term.char) = LowerChar(c)

\* the length of the run of characters after position pos that the term matches
RECURSIVE Run(_, _, _)
Run(term, text, pos) ==
    IF pos < Len(text) /\ TermMatches(term, text[pos + 1])
    THEN 1 + Run(term, text, pos + 1) ELSE 0

\* the end of the match of terms[i..] that starts after position pos, -1 if
\* there is none; a starred term tries its longest run first
RECURSIVE MatchFrom(_, _, _, _, _)
MatchFrom(terms, i, text, pos, run) ==
    IF i > Len(terms) THEN pos
    ELSE IF terms[i].star
    THEN LET k == IF run < 0 THEN Run(terms[i], text, pos) ELSE run
             end == MatchFrom(terms, i + 1, text, pos + k, -1)
         IN  IF end # -1 THEN end
             ELSE IF k = 0 THEN -1
             ELSE MatchFrom(terms, i, text, pos, k - 1)
    ELSE IF pos < Len(text) /\ TermMatches(terms[i], text[pos + 1])
    THEN MatchFrom(terms, i + 1, text, pos + 1, -1)
    ELSE -1

\* RegExp.prototype[Symbol.split] with one capturing group around the pattern:
\* p is the end of the last match, q the position tried, parts the array so far
RECURSIVE SplitFrom(_, _, _, _, _)
SplitFrom(terms, text, p, q, parts) ==
    IF q >= Len(text)
    THEN Append(parts, SubSeq(text, p + 1, Len(text)))
    ELSE LET e == MatchFrom(terms, 1, text, q, -1)
         IN  IF e = -1 \/ e = p
             THEN SplitFrom(terms, text, p, q + 1, parts)
             ELSE SplitFrom(terms, text, e, e,
                     parts \o <<SubSeq(text, p + 1, q), SubSeq(text, q + 1, e)>>)

\* part_001:24-32: a part is wrapped in the highlighting span
Highlighted(part, kw) == ToLowerCase(part) = ToLowerCase(kw)

\* part_001:20-33
highlightText(text, kw) ==
    IF text = << >> THEN [thrown |-> FALSE, parts |-> << >>]
    ELSE IF InvalidPattern(kw) THEN [thrown |-> TRUE, parts |-> << >>]
    ELSE LET split == SplitFrom(Terms(kw), text, 0, 0, << >>)
         IN  [thrown |-> FALSE,
              parts |-> [j \in 1..Len(split) |->
                            [text |-> split[j], highlighted |-> Highlighted(split[j], kw)]]]

CallHighlightText ==
    /\ view = NoCall
    /\ \E text \in Texts, kw \in KeywordTexts :
            /\ LET returned == highlightText(text, kw)
               IN  view' = [NoCall EXCEPT !.fn = "highlightText", !.text = text, !.keyword = kw,
                                          !.thrown = returned.thrown,
                                          !.parts = returned.parts]
    /\ UNCHANGED controller

RenderNext ==
    \/ CallFormatViews
    \/ CallGetMatchLabel
    \/ CallHighlightText

RenderSpec == Init /\ [][RenderNext]_vars

(***************************************************************************)
(* Vocabulary of the properties                                            *)
(***************************************************************************)
IsBlank(s) == \A i \in 1..Len(s) : s[i] \in WhiteSpace

\* the values appended under `name`, in order
ParamValues(params, name) ==
    [j \in 1..Cardinality({i \in 1..Len(params) : params[i][1] = name}) |->
        params[CHOOSE i \in 1..Len(params) :
                  /\ params[i][1] = name
                  /\ Cardinality({k \in 1..i : params[k][1] = name}) = j][2]]

ParamNames(params) == { params[i][1] : i \in 1..Len(params) }

RECURSIVE ConcatVideos(_)
ConcatVideos(pages) ==
    IF pages = << >> THEN << >>
    ELSE ConcatVideos(SubSeq(pages, 1, Len(pages) - 1)) \o pages[Len(pages)].videos

Issues == {"search", "loadMore"}
Successes == {"searchOk", "moreOk"}
Rejections == {"searchFailed", "moreFailed"}

\* C1: at most one network fetch is in flight in every reachable state.
AtMostOneFetchInFlight == Cardinality(pending) <= 1

\* C2: an accepted startSearch empties the accumulated results, and afterwards
\* they change only by appending a page returned for the current query: no
\* fetch issued for an earlier query changes them.
ResultsOnlyFromCurrentQuery ==
    /\ last.op = "search" => results = << >>
    /\ (last.op # "search" /\ results # pre.results) =>
          /\ last.op \in Successes
          /\ last.inv.search = current
          /\ results = pre.results \o last.data.videos

\* C3: loadMore called while loading is true or nextPageToken is absent issues
\* no fetch and leaves the whole search state unchanged.
LoadMoreNoOpWhenGuardFails ==
    (last.op \in {"loadMore", "loadMoreIgnored"}
        /\ (pre.loading \/ pre.nextPageToken = Null))
    => Snapshot = pre

LoadMoreCalledWhileLoading ==
    /\ last.op = "loadMoreIgnored"
    /\ pre.loading
    /\ pre.nextPageToken # Null
    /\ pre.pending # {}

\* C4: startSearch with an empty or whitespace-only keyword leaves the whole
\* search state unchanged and issues no fetch, from any state.
BlankKeywordNoOp ==
    (last.op \in {"search", "searchIgnored"} /\ IsBlank(last.arg))
    => Snapshot = pre

BlankSubmittedOverResults ==
    /\ last.op = "searchIgnored"
    /\ last.arg = Blank
    /\ results # << >>
    /\ nextPageToken # Null

\* C5: once the current search has received a page, the accumulated results are
\* the concatenation, in arrival order, of all the pages received for it, and
\* nextPageToken is the token of the last of them.
ResultsAreConcatenationOfPages ==
    received # << >> =>
        /\ results = ConcatVideos(received)
        /\ nextPageToken = received[Len(received)].next_page_token

\* C6: a request cycle begins with loading = true and error absent, error is
\* absent whenever loading is true, and a completion leaves loading = false
\* with either the success and no error, or an error.
LoadingAndErrorExclusive ==
    /\ last.op \in Issues => (loading /\ error = Null)
    /\ loading => error = Null
    /\ last.op \in Successes => (~loading /\ error = Null)
    /\ last.op \in Rejections => (~loading /\ error # Null)

\* C7: a failed startSearch fetch leaves error = the failure message ("Error: "
\* and the status text for a non-success status), loading = false, no
\* accumulated results and no nextPageToken.
FailedSearchLeavesEmptyState ==
    last.op = "searchFailed" =>
        /\ error = (IF last.failure.thrown THEN last.failure.message
                    ELSE <<"E", "r", "r", "o", "r", ":", " ">> \o last.failure.statusText)
        /\ ~loading
        /\ results = << >>
        /\ nextPageToken = Null

\* C8: a failed loadMore fetch sets error and loading = false and leaves the
\* accumulated results and nextPageToken as they were before the loadMore call.
FailedLoadMoreKeepsPreCallState ==
    last.op = "moreFailed" =>
        /\ error # Null
        /\ ~loading
        /\ results = last.inv.results
        /\ <<nextPageToken>> = ParamValues(last.inv.params, "page_token")

\* C9: an accepted startSearch, from any state, leaves keyword and filters as
\* submitted, no results, no nextPageToken, loading = true, no error, and
\* exactly one new fetch, which has no page_token.
AcceptedSearchEntersSearching ==
    last.op = "search" =>
        /\ keyword = last.arg
        /\ <<keyword, filters>> = <<query.keyword, query.filters>>
        /\ results = << >>
        /\ nextPageToken = Null
        /\ loading
        /\ error = Null
        /\ pre.pending \subseteq pending
        /\ Cardinality(pending \ pre.pending) = 1
        /\ \A inv \in pending \ pre.pending :
              /\ inv.kind = "search"
              /\ "page_token" \notin ParamNames(inv.params)
              /\ ParamValues(inv.params, "keyword") = <<last.arg>>

SearchAcceptedWhileLoadingMore ==
    /\ last.op = "search"
    /\ pre.loading
    /\ pre.results # << >>
    /\ pre.nextPageToken # Null
    /\ \E inv \in pre.pending : inv.kind = "more"

\* C10: a fetch issued by loadMore carries the keyword and the filters of the
\* most recent accepted startSearch, each filter parameter only when its value
\* is non-empty, and page_token = the nextPageToken held when loadMore was called.
FilterParam(params, name, value) ==
    ParamValues(params, name) = (IF value = << >> THEN << >> ELSE <<value>>)

LoadMoreFetchCarriesQuery ==
    last.op = "loadMore" =>
        /\ last.inv \in pending
        /\ ParamNames(last.inv.params) \subseteq
              {"keyword", "page_token", "min_date", "max_date", "min_views", "channel_name"}
        /\ ParamValues(last.inv.params, "keyword") = <<query.keyword>>
        /\ ParamValues(last.inv.params, "page_token") = <<pre.nextPageToken>>
        /\ FilterParam(last.inv.params, "min_date", query.filters.minDate)
        /\ FilterParam(last.inv.params, "max_date", query.filters.maxDate)
        /\ FilterParam(last.inv.params, "min_views", query.filters.minViews)
        /\ FilterParam(last.inv.params, "channel_name", query.filters.channelName)

LoadMoreIssuedWithFilters ==
    /\ last.op = "loadMore"
    /\ query.filters = SinceFilters
    /\ pre.nextPageToken = <<"t", "2">>
    /\ pre.results # << >>

\* C11: Load More is offered only with a nextPageToken and loading = false;
\* once a successful response has delivered no next_page_token, it is not
\* offered and no loadMore fetch is issued until a startSearch response
\* delivers a token.
NoLoadMoreAfterLastPage ==
    /\ LoadMoreOffered => (nextPageToken # Null /\ ~loading)
    /\ exhausted => (~LoadMoreOffered /\ last.op # "loadMore")

\* C12: no loadMore call or completion changes totalResults, only a successful
\* startSearch response writes it, and it is the total_results of the first
\* page of the current search.
TotalResultsOfFirstPage ==
    /\ last.op \in {"loadMore", "loadMoreIgnored", "moreOk", "moreFailed"}
          => totalResults = pre.totalResults
    /\ totalResults # pre.totalResults => last.op = "searchOk"
    /\ received # << >> => totalResults = received[1].total_results

\* C18: a failed fetch ends as a populated error field, and, every issued fetch
\* settling, loading = true is always followed by loading = false.
LoadingEventuallyFalse ==
    /\ [](last.op \in Rejections => (error # Null /\ error = ErrMessage(last.failure)))
    /\ (loading ~> ~loading)

FetchFailedIntoError ==
    /\ last.op \in Rejections
    /\ last.failure.thrown
    /\ pre.loading
    /\ ~loading
    /\ error = FailedToFetch

\* C19: loading is true exactly when a fetch is in flight; when Load More is
\* offered or a loadMore call passes its guard, no fetch is outstanding.
LoadingIffFetchInFlight ==
    /\ loading <=> pending # {}
    /\ LoadMoreOffered => pending = {}
    /\ last.op = "loadMore" => pre.pending = {}

\* C20: a nextPageToken held in the state was returned by a response to the
\* query held in the state, and a loadMore fetch sends the token with the
\* query of the request that produced it.
TokenBelongsToHeldQuery ==
    /\ Truthy(nextPageToken) => tokenFrom = SearchParams(keyword, filters)
    /\ last.op = "loadMore" => QueryParams(last.inv.params) = tokenFrom

(***************************************************************************)
(* Properties of the VideoCard helpers, checked under RenderSpec           *)
(***************************************************************************)
SameLetter(c, d) == c = d \/ {c, d} = {"a", "A"} \/ {c, d} = {"b", "B"}

EqualIgnoringCase(s, t) ==
    Len(s) = Len(t) /\ \A i \in 1..Len(s) : SameLetter(s[i], t[i])

\* the keyword occurs in the text as a literal string, ignoring case
OccursIn(kw, text) ==
    \E q \in 0..(Len(text) - Len(kw)) :
        EqualIgnoringCase(SubSeq(text, q + 1, q + Len(kw)), kw)

RECURSIVE ConcatParts(_)
ConcatParts(parts) ==
    IF parts = << >> THEN << >>
    ELSE ConcatParts(SubSeq(parts, 1, Len(parts) - 1)) \o parts[Len(parts)].text

\* the text cut at the literal occurrences of the keyword, from left to right:
\* plain piece, occurrence, plain piece, ...
RECURSIVE LiteralSplit(_, _, _, _, _)
LiteralSplit(text, kw, p, q, pieces) ==
    IF q + Len(kw) > Len(text)
    THEN Append(pieces, SubSeq(text, p + 1, Len(text)))
    ELSE IF EqualIgnoringCase(SubSeq(text, q + 1, q + Len(kw)), kw)
    THEN LiteralSplit(text, kw, q + Len(kw), q + Len(kw),
            pieces \o <<SubSeq(text, p + 1, q), SubSeq(text, q + 1, q + Len(kw))>>)
    ELSE LiteralSplit(text, kw, p, q + 1, pieces)

\* C13: for a non-empty text and keyword, highlightText returns segments whose
\* texts, concatenated in order, are the text; an empty text gives no segments.
HighlightRoundTrip ==
    view.fn = "highlightText" =>
        /\ ~view.thrown
        /\ ConcatParts(view.parts) = view.text

\* C14: a segment is highlighted iff its text equals the keyword ignoring case,
\* and no plain segment contains the keyword ignoring case.
HighlightTagsOccurrences ==
    view.fn = "highlightText" =>
        \A j \in 1..Len(view.parts) :
            /\ view.parts[j].highlighted <=>
                  EqualIgnoringCase(view.parts[j].text, view.keyword)
            /\ ~view.parts[j].highlighted => ~OccursIn(view.keyword, view.parts[j].text)

\* C15: a keyword with pattern characters is matched as a literal string: the
\* call does not fail and the text is cut exactly at the literal occurrences
\* of the keyword.
HighlightMatchesLiterally ==
    (view.fn = "highlightText" /\ view.text # << >>) =>
        /\ ~view.thrown
        /\ [j \in 1..Len(view.parts) |-> view.parts[j].text]
              = LiteralSplit(view.text, view.keyword, 0, 0, << >>)

\* C16: getMatchLabel capitalises "title", "description" and "transcript",
\* passes any other tag through, and joins the labels with ", " in input
\* order; no tag gives "" and then "Found in:" is not rendered.
Capitalised ==
    [title |-> "Title", description |-> "Description", transcript |-> "Transcript"]

RECURSIVE ExpectedLabel(_)
ExpectedLabel(tags) ==
    IF tags = << >> THEN ""
    ELSE (IF Head(tags) \in DOMAIN Capitalised THEN Capitalised[Head(tags)] ELSE Head(tags))
         \o (IF Tail(tags) = << >> THEN "" ELSE ", " \o ExpectedLabel(Tail(tags)))

MatchLabelsJoined ==
    view.fn = "getMatchLabel" =>
        /\ view.label = ExpectedLabel(view.matchTypes)
        /\ view.matchTypes = <<"title", "transcript">> => view.label = "Title, Transcript"
        /\ view.matchTypes = << >> => (view.label = "" /\ ~view.foundIn)
        /\ view.matchTypes # << >> => view.foundIn

TranscriptAndUnknownLabelled ==
    /\ view.fn = "getMatchLabel"
    /\ view.matchTypes = <<"transcript", "channel">>
    /\ view.label = "Transcript, channel"

\* C17: formatViews returns n below 1,000, n/1,000 rounded half-up to one
\* decimal and "K" below 1,000,000, n/1,000,000 rounded half-up to one decimal
\* and "M" from there on; 999 gives 999, 1500 "1.5K", 2500000 "2.5M".
HalfUpTenths(n, scale) == (20 * n + scale) \div (2 * scale)

HalfUp1(n, scale) ==
    ToString(HalfUpTenths(n, scale) \div 10) \o "." \o ToString(HalfUpTenths(n, scale) % 10)

FormatViewsRoundsHalfUp ==
    view.fn = "formatViews" =>
        /\ view.count < 1000 => (view.isNumber /\ view.number = view.count)
        /\ (view.count >= 1000 /\ view.count < 1000000)
              => (~view.isNumber /\ view.formatted = HalfUp1(view.count, 1000) \o "K")
        /\ view.count >= 1000000
              => (~view.isNumber /\ view.formatted = HalfUp1(view.count, 1000000) \o "M")
        /\ view.count = 1500 => view.formatted = "1.5K"
        /\ view.count = 2500000 => view.formatted = "2.5M"
====
